---- MODULE Spec2Model ----
\* A model of tools/convert_model.py: the script that downloads the Silero VAD
\* traced model and exports it to ONNX.  The state is the filesystem the
\* script touches, the process-wide gradient flag, the locals of
\* init_jit_model and convert_to_onnx, and the position of the interpreter.
\* Each statement of the source is one action; an exception ends the process
\* (the source has no try/except).
EXTENDS Integers, Sequences, FiniteSets, TLC

\* ---------------------------------------------------------------- bounds
MaxRuns == 2      \* script runs plus convert_to_onnx calls per behaviour
NumModels == 2    \* distinct traced graphs the remote URL may serve
NumDraws == 2     \* distinct outcomes of one torch.randn(1, 512) draw

\* ---------------------------------------------------------------- paths
jit_model_url == "https://github.com/snakers4/silero-vad/raw/master/files/silero_vad.jit"
jit_model_path == "models/silero_vad.jit"
onnx_model_path == "models/silero_vad.onnx"
models_dir == "models"
\* a path whose parent directory nothing in the program ever creates
orphan_path == "nodir/silero_vad.onnx"

Paths == {jit_model_path, onnx_model_path, orphan_path}

Parent(p) == IF p = orphan_path THEN "nodir" ELSE models_dir

\* ---------------------------------------------------------------- file contents
Content(k, i, t) == [kind |-> k, id |-> i, training |-> t]
Absent == Content("absent", 0, FALSE)
Junk == Content("junk", 0, FALSE)          \* bytes that are not a traced graph
Truncated == Content("truncated", 0, FALSE) \* a file cut short by a failed write
JitFiles == {Content("jit", i, t) : i \in 1..NumModels, t \in BOOLEAN}

\* what the server behind jit_model_url may answer with a 2xx response
Payloads == JitFiles \cup {Junk}

\* what a path may hold before the program first runs: nothing, foreign
\* bytes, a traced graph saved in training mode, or a graph exported earlier
InitialFiles == {Absent, Junk, Content("jit", 1, TRUE), Content("onnx", 1, FALSE)}

\* the mutant of CanOpen: a missing directory does not stop the write
CanOpenAnywhere(ds, p) == TRUE

\* open(p, "wb") succeeds only in a directory that exists
CanOpen(ds, p) == Parent(p) \in ds

\* the mutant of WriteFile: refuses to replace an existing file
WriteFileIfAbsent(fs, p, c) == IF fs[p] = Absent THEN [fs EXCEPT ![p] = c] ELSE fs

\* open(p, "wb") followed by a complete write: the old content is dropped
WriteFile(fs, p, c) == [fs EXCEPT ![p] = c]

\* ---------------------------------------------------------------- model handles
NoModel == [graph |-> 0, training |-> FALSE, loaded |-> FALSE]

\* the mutant of Loadable: anything, even a missing file, deserializes
LoadableAnything(c) == TRUE

\* torch.jit.load succeeds exactly on a file holding a traced graph
Loadable(c) == c.kind = "jit"

\* torch.jit.load: the handle keeps the training flag the graph was saved with
Deserialize(c) == [graph |-> c.id, training |-> c.training, loaded |-> TRUE]

\* the mutant of Eval: model.eval() left out
EvalOmitted(m) == m

\* model.eval()
Eval(m) == [m EXCEPT !.training = FALSE]

\* ---------------------------------------------------------------- dummy tensors
Tensor(shape, dtype, gen, val) == [shape |-> shape, dtype |-> dtype, gen |-> gen, val |-> val]

\* the mutant of dummy_input: the batch size is drawn along with the contents
dummy_input_ragged(draw) == Tensor(<<draw, 512>>, "float32", "randn", draw)

\* torch.randn(1, 512): val names which outcome the generator produced
dummy_input(draw) == Tensor(<<1, 512>>, "float32", "randn", draw)

\* torch.zeros(2, 1, 128)
dummy_state == Tensor(<<2, 1, 128>>, "float32", "zeros", 0)

\* the mutant of dummy_sr: a zero-dimensional tensor, torch.tensor(16000)
dummy_sr_scalar == Tensor(<<>>, "int64", "literal", 16000)

\* torch.tensor([16000], dtype=torch.int64): one dimension of length one
dummy_sr == Tensor(<<1>>, "int64", "literal", 16000)

\* ---------------------------------------------------------------- export configuration
\* the mutant of ExportConfig: sr declared variable-size too, opset 17
ExportConfigLoose ==
  [export_params |-> TRUE,
   opset_version |-> 17,
   do_constant_folding |-> TRUE,
   input_names |-> <<"input", "state", "sr">>,
   output_names |-> <<"output", "new_state">>,
   dynamic_axes |->
     [input |-> {<<0, "batch_size">>, <<1, "sequence">>},
      state |-> {<<1, "batch_size">>},
      sr |-> {<<0, "batch_size">>},
      output |-> {<<0, "batch_size">>},
      new_state |-> {<<1, "batch_size">>}]]

\* the keyword arguments of torch.onnx.export
ExportConfig ==
  [export_params |-> TRUE,
   opset_version |-> 16,
   do_constant_folding |-> TRUE,
   input_names |-> <<"input", "state", "sr">>,
   output_names |-> <<"output", "new_state">>,
   dynamic_axes |->
     [input |-> {<<0, "batch_size">>, <<1, "sequence">>},
      state |-> {<<1, "batch_size">>},
      output |-> {<<0, "batch_size">>},
      new_state |-> {<<1, "batch_size">>}]]

\* the graph the export routine serializes for a loaded model
ExportedGraph(m) == Content("onnx", m.graph, m.training)

\* ---------------------------------------------------------------- output lines
Line(text, arg) == <<text, arg>>
DownloadingLine == Line("Downloading JIT model...", "")
ConvertingLine == Line("Converting to ONNX...", "")
SavedLine(p) == Line("Model converted and saved to ", p)

\* ---------------------------------------------------------------- control flow
\* the mutant of Succ: the download statement is jumped over
SuccSkipDownload(p, md) ==
  CASE p = "main_makedirs" -> "main_print_dl"
    [] p = "main_print_dl" -> "main_print_conv"
    [] p = "main_download" -> "main_print_conv"
    [] p = "main_print_conv" -> "main_call"
    [] p = "main_call" -> "jit_grad"
    [] p = "jit_grad" -> "jit_load"
    [] p = "jit_load" -> "jit_eval"
    [] p = "jit_eval" -> "jit_return"
    [] p = "jit_return" -> "conv_dummy"
    [] p = "conv_dummy" -> "conv_export"
    [] p = "conv_export" -> "conv_print"
    [] p = "conv_print" -> (IF md = "script" THEN "done" ELSE "idle")
    [] OTHER -> p

\* the mutant of Succ: the success line is printed before the export
SuccPrintFirst(p, md) ==
  CASE p = "main_makedirs" -> "main_print_dl"
    [] p = "main_print_dl" -> "main_download"
    [] p = "main_download" -> "main_print_conv"
    [] p = "main_print_conv" -> "main_call"
    [] p = "main_call" -> "jit_grad"
    [] p = "jit_grad" -> "jit_load"
    [] p = "jit_load" -> "jit_eval"
    [] p = "jit_eval" -> "jit_return"
    [] p = "jit_return" -> "conv_dummy"
    [] p = "conv_dummy" -> "conv_print"
    [] p = "conv_print" -> "conv_export"
    [] p = "conv_export" -> (IF md = "script" THEN "done" ELSE "idle")
    [] OTHER -> p

\* the statement that follows p when p completes normally
Succ(p, md) ==
  CASE p = "main_makedirs" -> "main_print_dl"
    [] p = "main_print_dl" -> "main_download"
    [] p = "main_download" -> "main_print_conv"
    [] p = "main_print_conv" -> "main_call"
    [] p = "main_call" -> "jit_grad"
    [] p = "jit_grad" -> "jit_load"
    [] p = "jit_load" -> "jit_eval"
    [] p = "jit_eval" -> "jit_return"
    [] p = "jit_return" -> "conv_dummy"
    [] p = "conv_dummy" -> "conv_export"
    [] p = "conv_export" -> "conv_print"
    [] p = "conv_print" -> (IF md = "script" THEN "done" ELSE "idle")
    [] OTHER -> p

\* the mutant of Raise: the exception is swallowed and the run goes on
RaiseSwallowed(p, md) == Succ(p, md)

\* an exception raised at p: nothing catches it, the process ends
Raise(p, md) == "raised"

\* ---------------------------------------------------------------- state
VARIABLES
  proc,         \* number of processes started so far
  runs,         \* script runs plus convert_to_onnx calls started so far
  mode,         \* "none", "script" (python convert_model.py) or "import"
  pc,           \* the statement about to execute
  err,          \* the exception that ended the process, "none" if none
  dirs,         \* the directories that exist
  files,        \* path -> content
  gradEnabled,  \* torch's process-wide gradient flag
  model_path,   \* argument of convert_to_onnx
  output_path,  \* argument of convert_to_onnx
  jm,           \* the local `model` of init_jit_model
  model,        \* the local `model` of convert_to_onnx
  dummy,        \* <<dummy_input, dummy_state, dummy_sr>>, <<>> before line 16
  stdout,       \* the lines printed by the current run
  trace,        \* the statements the current run has executed
  exports,      \* every torch.onnx.export invocation so far
  start,        \* the files as they were when the current run started
  entry         \* the filesystem as it was when convert_to_onnx was entered

vars == <<proc, runs, mode, pc, err, dirs, files, gradEnabled, model_path,
          output_path, jm, model, dummy, stdout, trace, exports, start, entry>>

fsVars == <<dirs, files>>
callVars == <<model_path, output_path, jm, model, dummy>>

\* a filesystem in which no file lives in a missing directory
Init ==
  /\ proc = 0
  /\ runs = 0
  /\ mode = "none"
  /\ pc = "boot"
  /\ err = "none"
  /\ dirs \in {{"."}, {".", models_dir}}
  /\ files \in [Paths -> InitialFiles]
  /\ \A p \in Paths : Parent(p) \notin dirs => files[p] = Absent
  /\ gradEnabled = TRUE
  /\ model_path = ""
  /\ output_path = ""
  /\ jm = NoModel
  /\ model = NoModel
  /\ dummy = <<>>
  /\ stdout = <<>>
  /\ trace = <<>>
  /\ exports = <<>>
  /\ start = files
  /\ entry = [files |-> files, dirs |-> dirs]

\* ---------------------------------------------------------------- process start
Ended == pc \in {"boot", "done", "raised", "idle"}

\* `python convert_model.py`: a fresh interpreter enters the __main__ block
StartScript ==
  /\ Ended
  /\ runs < MaxRuns
  /\ proc' = proc + 1
  /\ runs' = runs + 1
  /\ mode' = "script"
  /\ pc' = "main_makedirs"
  /\ err' = "none"
  /\ gradEnabled' = TRUE
  /\ model_path' = ""
  /\ output_path' = ""
  /\ jm' = NoModel
  /\ model' = NoModel
  /\ dummy' = <<>>
  /\ stdout' = <<>>
  /\ trace' = <<>>
  /\ start' = files
  /\ entry' = [files |-> files, dirs |-> dirs]
  /\ UNCHANGED <<dirs, files, exports>>

\* a fresh interpreter imports the module: __name__ is not "__main__"
StartImport ==
  /\ pc \in {"boot", "done", "raised"}
  /\ runs < MaxRuns
  /\ proc' = proc + 1
  /\ mode' = "import"
  /\ pc' = "idle"
  /\ err' = "none"
  /\ gradEnabled' = TRUE
  /\ model_path' = ""
  /\ output_path' = ""
  /\ jm' = NoModel
  /\ model' = NoModel
  /\ dummy' = <<>>
  /\ stdout' = <<>>
  /\ trace' = <<>>
  /\ start' = files
  /\ entry' = [files |-> files, dirs |-> dirs]
  /\ UNCHANGED <<runs, dirs, files, exports>>

\* the importing program calls convert_to_onnx(mp, op)
convert_to_onnx(mp, op) ==
  /\ pc = "idle"
  /\ runs < MaxRuns
  /\ runs' = runs + 1
  /\ model_path' = mp
  /\ output_path' = op
  /\ jm' = NoModel
  /\ model' = NoModel
  /\ dummy' = <<>>
  /\ stdout' = <<>>
  /\ trace' = <<>>
  /\ start' = files
  /\ entry' = [files |-> files, dirs |-> dirs]
  /\ pc' = "jit_grad"
  /\ UNCHANGED <<proc, mode, err, dirs, files, gradEnabled, exports>>

\* ---------------------------------------------------------------- __main__
\* os.makedirs("models", exist_ok=True)
main_makedirs ==
  /\ pc = "main_makedirs"
  /\ trace' = Append(trace, pc)
  /\ \/ /\ dirs' = dirs \cup {models_dir}
        /\ pc' = Succ(pc, mode)
        /\ err' = err
     \/ /\ models_dir \notin dirs
        /\ dirs' = dirs
        /\ pc' = Raise(pc, mode)
        /\ err' = "OSError"
  /\ UNCHANGED <<proc, runs, mode, files, gradEnabled, callVars, stdout, exports, start, entry>>

\* print("Downloading JIT model...")
main_print_dl ==
  /\ pc = "main_print_dl"
  /\ trace' = Append(trace, pc)
  /\ stdout' = Append(stdout, DownloadingLine)
  /\ pc' = Succ(pc, mode)
  /\ UNCHANGED <<proc, runs, mode, err, fsVars, gradEnabled, callVars, exports, start, entry>>

\* urllib.request.urlretrieve(jit_model_url, jit_model_path)
main_download ==
  /\ pc = "main_download"
  /\ trace' = Append(trace, pc)
  /\ \/ \E body \in Payloads :
          /\ files' = WriteFile(files, jit_model_path, body)
          /\ pc' = Succ(pc, mode)
          /\ err' = err
     \/ \* no connection, or a non-2xx answer: the target is never opened
        /\ files' = files
        /\ pc' = Raise(pc, mode)
        /\ err' = "NetworkError"
     \/ \* the transfer breaks off after the target was opened for writing
        /\ files' = WriteFile(files, jit_model_path, Truncated)
        /\ pc' = Raise(pc, mode)
        /\ err' = "NetworkError"
  /\ UNCHANGED <<proc, runs, mode, dirs, gradEnabled, callVars, stdout, exports, start, entry>>

\* print("Converting to ONNX...")
main_print_conv ==
  /\ pc = "main_print_conv"
  /\ trace' = Append(trace, pc)
  /\ stdout' = Append(stdout, ConvertingLine)
  /\ pc' = Succ(pc, mode)
  /\ UNCHANGED <<proc, runs, mode, err, fsVars, gradEnabled, callVars, exports, start, entry>>

\* convert_to_onnx(jit_model_path, "models/silero_vad.onnx")
main_call ==
  /\ pc = "main_call"
  /\ trace' = Append(trace, pc)
  /\ model_path' = jit_model_path
  /\ output_path' = onnx_model_path
  /\ entry' = [files |-> files, dirs |-> dirs]
  /\ pc' = Succ(pc, mode)
  /\ UNCHANGED <<proc, runs, mode, err, fsVars, gradEnabled, jm, model, dummy, stdout, exports, start>>

\* ---------------------------------------------------------------- init_jit_model
\* torch.set_grad_enabled(False)
jit_grad ==
  /\ pc = "jit_grad"
  /\ trace' = Append(trace, pc)
  /\ gradEnabled' = FALSE
  /\ pc' = Succ(pc, mode)
  /\ UNCHANGED <<proc, runs, mode, err, fsVars, callVars, stdout, exports, start, entry>>

\* model = torch.jit.load(model_path)
jit_load ==
  /\ pc = "jit_load"
  /\ trace' = Append(trace, pc)
  /\ IF Loadable(files[model_path])
       THEN /\ jm' = Deserialize(files[model_path])
            /\ pc' = Succ(pc, mode)
            /\ err' = err
       ELSE /\ jm' = jm
            /\ pc' = Raise(pc, mode)
            /\ err' = "LoadError"
  /\ UNCHANGED <<proc, runs, mode, fsVars, gradEnabled, model_path, output_path, model, dummy, stdout, exports, start, entry>>

\* model.eval()
jit_eval ==
  /\ pc = "jit_eval"
  /\ trace' = Append(trace, pc)
  /\ jm' = Eval(jm)
  /\ pc' = Succ(pc, mode)
  /\ UNCHANGED <<proc, runs, mode, err, fsVars, gradEnabled, model_path, output_path, model, dummy, stdout, exports, start, entry>>

\* return model, received by `model = init_jit_model(model_path)`
jit_return ==
  /\ pc = "jit_return"
  /\ trace' = Append(trace, pc)
  /\ model' = jm
  /\ pc' = Succ(pc, mode)
  /\ UNCHANGED <<proc, runs, mode, err, fsVars, gradEnabled, model_path, output_path, jm, dummy, stdout, exports, start, entry>>

\* ---------------------------------------------------------------- convert_to_onnx
\* the three dummy tensors
conv_dummy ==
  /\ pc = "conv_dummy"
  /\ trace' = Append(trace, pc)
  /\ \E draw \in 1..NumDraws :
       dummy' = <<dummy_input(draw), dummy_state, dummy_sr>>
  /\ pc' = Succ(pc, mode)
  /\ UNCHANGED <<proc, runs, mode, err, fsVars, gradEnabled, model_path, output_path, jm, model, stdout, exports, start, entry>>

\* torch.onnx.export(model, (dummy_input, dummy_state, dummy_sr), output_path, ...)
conv_export ==
  /\ pc = "conv_export"
  /\ trace' = Append(trace, pc)
  /\ exports' = Append(exports,
                  [model |-> model, args |-> dummy, f |-> output_path,
                   cfg |-> ExportConfig, grad |-> gradEnabled])
  /\ \/ \* the graph is traced, serialized and written
        /\ CanOpen(dirs, output_path)
        /\ files' = WriteFile(files, output_path, ExportedGraph(model))
        /\ pc' = Succ(pc, mode)
        /\ err' = err
     \/ \* tracing or lowering fails: the target is never opened
        /\ files' = files
        /\ pc' = Raise(pc, mode)
        /\ err' = "ExportError"
     \/ \* the target cannot be opened: its directory is missing
        /\ ~CanOpen(dirs, output_path)
        /\ files' = files
        /\ pc' = Raise(pc, mode)
        /\ err' = "ExportError"
     \/ \* the write breaks off after the target was opened
        /\ CanOpen(dirs, output_path)
        /\ files' = WriteFile(files, output_path, Truncated)
        /\ pc' = Raise(pc, mode)
        /\ err' = "ExportError"
  /\ UNCHANGED <<proc, runs, mode, dirs, gradEnabled, callVars, stdout, start, entry>>

\* print(f"Model converted and saved to {output_path}"), then return
conv_print ==
  /\ pc = "conv_print"
  /\ trace' = Append(trace, pc)
  /\ stdout' = Append(stdout, SavedLine(output_path))
  /\ pc' = Succ(pc, mode)
  /\ UNCHANGED <<proc, runs, mode, err, fsVars, gradEnabled, callVars, exports, start, entry>>

Next ==
  \/ StartScript
  \/ StartImport
  \/ \E mp \in Paths, op \in Paths : convert_to_onnx(mp, op)
  \/ main_makedirs
  \/ main_print_dl
  \/ main_download
  \/ main_print_conv
  \/ main_call
  \/ jit_grad
  \/ jit_load
  \/ jit_eval
  \/ jit_return
  \/ conv_dummy
  \/ conv_export
  \/ conv_print

Spec == Init /\ [][Next]_vars

TypeOK ==
  /\ proc \in Nat
  /\ runs \in 0..MaxRuns
  /\ mode \in {"none", "script", "import"}
  /\ err \in {"none", "OSError", "NetworkError", "LoadError", "ExportError"}
  /\ gradEnabled \in BOOLEAN
  /\ \A p \in Paths : Parent(p) \notin dirs => files[p] = Absent

\* ================================================================ properties
Range(seq) == {seq[i] : i \in DOMAIN seq}

Executed(stmt) == stmt \in Range(trace)

IsPrefix(a, b) == Len(a) <= Len(b) /\ SubSeq(b, 1, Len(a)) = a

\* the four steps of a script run, by the statement that performs each
FourSteps == <<"main_makedirs", "main_download", "jit_load", "conv_export">>

IsStep(stmt) == stmt \in Range(FourSteps)

StepsDone == SelectSeq(trace, IsStep)

\* the current convert_to_onnx call has ended, one way or the other
CallOver == Executed("jit_grad") /\ pc \in {"raised", "done", "idle"}

\* the export of the current run wrote its graph
ExportSucceeded == Executed("conv_export") /\ err = "none"

NoSavedLine == \A i \in DOMAIN stdout : stdout[i][1] # "Model converted and saved to "

\* ---------------------------------------------------------------- C1
\* C1: when the file at model_path is not a loadable traced graph, the call
\* fails with LoadError at the load statement, the export statement is never
\* executed, and the file at output_path is what it was when the call began.
C1_LoadFailureLeavesOutput ==
  (Executed("jit_load") /\ entry.files[model_path].kind # "jit")
    => /\ err = "LoadError"
       /\ pc = "raised"
       /\ ~Executed("conv_export")
       /\ trace[Len(trace)] = "jit_load"
       /\ files[output_path] = entry.files[output_path]

C1_Witness ==
  /\ err = "LoadError"
  /\ entry.files[model_path] = Absent
  /\ model_path # output_path
  /\ files[output_path] = Junk

\* ---------------------------------------------------------------- C2
\* C2: in a script run the steps executed so far are always an initial part of
\* makedirs, download, load, export; a step is about to start only when all
\* the steps before it have completed without error; a run that completes has
\* done all four; the download is done whatever the model file held before.
C2_FixedStepOrder ==
  mode = "script" =>
    /\ IsPrefix(StepsDone, FourSteps)
    /\ \A k \in DOMAIN FourSteps :
         pc = FourSteps[k] => StepsDone = SubSeq(FourSteps, 1, k - 1) /\ err = "none"
    /\ pc \in {"main_print_conv", "main_call", "jit_grad"} =>
         StepsDone = SubSeq(FourSteps, 1, 2)
    /\ pc = "done" => StepsDone = FourSteps
    /\ pc = "raised" => StepsDone # <<>>

C2_Witness ==
  /\ mode = "script"
  /\ pc = "done"
  /\ start[jit_model_path].kind = "jit"
  /\ StepsDone = FourSteps

\* ---------------------------------------------------------------- C3
\* C3: once a step has failed the process is over: it never completes
\* normally, the success line is not in its output, and the only thing that
\* can happen next is that another process is started.
C3_FailureAborts ==
  /\ [](err # "none" => pc = "raised" /\ NoSavedLine)
  /\ [][err # "none" => proc' # proc]_vars

C3_Witness ==
  /\ mode = "script"
  /\ err = "ExportError"
  /\ pc = "raised"
  /\ Len(stdout) = 2

\* ---------------------------------------------------------------- C4
\* C4 as stated: any two export invocations for the same model and output
\* path receive the same example inputs.
C4_SameInputsEveryRun ==
  \A i, j \in DOMAIN exports :
    (exports[i].model = exports[j].model /\ exports[i].f = exports[j].f)
      => exports[i].args = exports[j].args

TensorType(t) == <<t.shape, t.dtype, t.gen>>

\* C4 amended: any two export invocations receive example inputs of the same
\* shapes and dtypes and the same export configuration, and identical state
\* and sample-rate tensors; only the contents of the input tensor, drawn by
\* torch.randn, may differ.
C4_SameInputsUpToRandomDraw ==
  \A i, j \in DOMAIN exports :
    /\ Len(exports[i].args) = Len(exports[j].args)
    /\ \A k \in DOMAIN exports[i].args :
         TensorType(exports[i].args[k]) = TensorType(exports[j].args[k])
    /\ exports[i].args[2] = exports[j].args[2]
    /\ exports[i].args[3] = exports[j].args[3]
    /\ exports[i].cfg = exports[j].cfg

C4_Witness ==
  /\ Len(exports) >= 2
  /\ exports[1].model = exports[2].model
  /\ exports[1].f = exports[2].f
  /\ exports[1].args[1].val # exports[2].args[1].val

\* ---------------------------------------------------------------- C5
\* C5: every export invocation has parameter export on, opset 16, constant
\* folding on, inputs named input, state, sr, outputs named output,
\* new_state, and variable axes on exactly input (0 batch, 1 sequence),
\* state (1 batch), output (0 batch), new_state (1 batch); none on sr.
C5_ExportConfiguration ==
  \A i \in DOMAIN exports :
    LET c == exports[i].cfg
        d == c.dynamic_axes
    IN /\ c.export_params = TRUE
       /\ c.opset_version = 16
       /\ c.do_constant_folding = TRUE
       /\ c.input_names = <<"input", "state", "sr">>
       /\ c.output_names = <<"output", "new_state">>
       /\ DOMAIN d = {"input", "state", "output", "new_state"}
       /\ d.input = {<<0, "batch_size">>, <<1, "sequence">>}
       /\ d.state = {<<1, "batch_size">>}
       /\ d.output = {<<0, "batch_size">>}
       /\ d.new_state = {<<1, "batch_size">>}

C5_Witness ==
  /\ Len(exports) = 2
  /\ pc = "conv_print"

\* ---------------------------------------------------------------- C6
\* C6 as stated: a call whose output directory is missing ends with
\* ExportError, with no file at output_path.
C6_MissingDirIsExportError ==
  (CallOver /\ Parent(output_path) \notin entry.dirs)
    => err = "ExportError" /\ files[output_path] = Absent

\* C6 amended: a call whose output directory is missing ends with LoadError
\* when the model file is not a loadable graph and with ExportError
\* otherwise; either way no file is at output_path afterwards, and no
\* statement of convert_to_onnx changes the set of directories.
C6_MissingDirFails ==
  Executed("jit_grad") =>
    /\ dirs = entry.dirs
    /\ (CallOver /\ Parent(output_path) \notin entry.dirs)
         => /\ pc = "raised"
            /\ err = (IF entry.files[model_path].kind = "jit"
                        THEN "ExportError" ELSE "LoadError")
            /\ files[output_path] = Absent

C6_Witness ==
  /\ CallOver
  /\ Parent(output_path) \notin dirs
  /\ err = "ExportError"
  /\ Executed("conv_export")

\* ---------------------------------------------------------------- C7
\* C7: after an export that succeeded, output_path holds exactly the graph
\* exported from the loaded model, whatever it held before, and every other
\* path holds what it held when the call began.
C7_ExportReplacesOutput ==
  ExportSucceeded =>
    /\ files[output_path] = [kind |-> "onnx", id |-> model.graph, training |-> FALSE]
    /\ \A p \in Paths \ {output_path} : files[p] = entry.files[p]

C7_Witness ==
  /\ ExportSucceeded
  /\ mode = "script"
  /\ runs = 2
  /\ Len(exports) = 2
  /\ entry.files[output_path].kind = "onnx"
  /\ entry.files[output_path] # files[output_path]

\* ---------------------------------------------------------------- C8
\* C8: a handle held by convert_to_onnx is in evaluation mode and gradient
\* tracking is off, in particular when the export is about to be invoked;
\* inside init_jit_model the flag is cleared before the graph is
\* deserialized and evaluation mode is set after, so the flag is already off
\* when the load fails.
C8_InferenceModeAtExport ==
  /\ model.loaded => ~gradEnabled /\ ~model.training
  /\ pc = "conv_export" => model.loaded /\ ~gradEnabled /\ ~model.training
  /\ \A i \in DOMAIN exports : ~exports[i].grad /\ ~exports[i].model.training
  /\ jm.loaded => ~gradEnabled
  /\ Executed("jit_load") => ~gradEnabled
  /\ err = "LoadError" => ~gradEnabled /\ ~jm.loaded
  /\ Executed("jit_eval") => Executed("jit_load") /\ ~jm.training

C8_Witness ==
  /\ pc = "conv_export"
  /\ entry.files[model_path].training = TRUE
  /\ model.loaded

\* ---------------------------------------------------------------- C9
\* C9 as stated: a script run that completes has printed exactly two lines.
C9_TwoLinesAtEnd ==
  (mode = "script" /\ pc = "done") => Len(stdout) = 2

\* C9 amended: a script run that completes has printed exactly three lines:
\* "Downloading JIT model..." before the download, "Converting to ONNX..."
\* before the call of convert_to_onnx, and "Model converted and saved to
\* models/silero_vad.onnx" after the export, as the last statement of the run.
C9_ThreeLines ==
  mode = "script" =>
    /\ pc = "done" =>
         /\ stdout = << <<"Downloading JIT model...", "">>,
                        <<"Converting to ONNX...", "">>,
                        <<"Model converted and saved to ", "models/silero_vad.onnx">> >>
         /\ trace[Len(trace)] = "conv_print"
    /\ pc = "main_download" => stdout = << <<"Downloading JIT model...", "">> >>
    /\ pc = "main_call" => Len(stdout) = 2
    /\ ~NoSavedLine => Executed("conv_export") /\ err = "none"

C9_Witness ==
  /\ mode = "script"
  /\ pc = "done"
  /\ Len(stdout) = 3

\* ---------------------------------------------------------------- C10
\* C10 as stated: the third example input is a zero-dimensional tensor.
C10_ScalarSampleRate ==
  \A i \in DOMAIN exports :
    /\ Len(exports[i].args) = 3
    /\ exports[i].args[1].shape = <<1, 512>>
    /\ exports[i].args[2].shape = <<2, 1, 128>>
    /\ exports[i].args[3].shape = <<>>
    /\ exports[i].args[3].val = 16000

\* C10 amended: the example inputs are three tensors in the order input,
\* state, sample rate: a float [1, 512] buffer, a zero float [2, 1, 128]
\* buffer, and a one-dimensional int64 tensor of length one holding 16000;
\* none depends on the model or on the arguments.
C10_ExampleInputs ==
  \A i \in DOMAIN exports :
    LET a == exports[i].args
    IN /\ Len(a) = 3
       /\ a[1].shape = <<1, 512>> /\ a[1].dtype = "float32" /\ a[1].gen = "randn"
       /\ a[2] = [shape |-> <<2, 1, 128>>, dtype |-> "float32", gen |-> "zeros", val |-> 0]
       /\ a[3] = [shape |-> <<1>>, dtype |-> "int64", gen |-> "literal", val |-> 16000]

C10_Witness ==
  /\ Len(exports) = 2
  /\ exports[1].f # exports[2].f
  /\ exports[1].model # exports[2].model
====
